---- MODULE Spec2Model ----
(***************************************************************************)
(* Model of the NAMFISA regulatory sandbox backend (namfisa_core):          *)
(*   - routes/applications.py : the application CRUD / submit handlers      *)
(*   - users.py               : UserManager (lockout, security audit log)   *)
(*   - models.py              : the tables the handlers read and write      *)
(* and of the AI orchestration service (ai-orchestration-service/src):     *)
(*   - main.py                : the three agents, the document validation   *)
(*                              workflow and the requirement catalog        *)
(* Every handler runs in one request-scoped transaction and is one action.  *)
(* uuid4 primary keys are modelled by the position of the row in its table. *)
(***************************************************************************)
EXTENDS Integers, Sequences, FiniteSets, TLC

VARIABLES
  users,          \* users table: user id -> row (models.py User)
  audit_trail,    \* audit_trail table: sequence of rows (models.py AuditTrail)
  companies,      \* companies table: sequence of rows, id = position
  applications,   \* applications table: sequence of rows, id = position
  now,            \* minutes since midnight of the current day (clock)
  today,          \* current date, as a day number (clock)
  request,        \* the request / call handled last
  response,       \* what that request / call answered
  locked_at       \* history: user id -> when account_locked last became true

vars == <<users, audit_trail, companies, applications, now, today,
          request, response, locked_at>>

----------------------------------------------------------------------------
(* Bounds of the model                                                      *)

MaxApps == 2        \* rows in the applications table
MaxTicks == 2       \* clock ticks per day
MaxDay == 1         \* last day the clock reaches
MaxSize == 2        \* largest page size requested
MaxAttempts == 6    \* cap on the login_attempts counter

TickMinutes == 15   \* minutes the clock advances per tick
MaxChunks == 3      \* pieces a password input is put together from
MaxDocs == 2        \* documents in one validation request

UserIds == {"u1", "u2"}
RegNumbers == {"R1", "R2"}
LegalNames == {"Acme", "Bolt"}
CreateTexts == {"bm1"}
UpdateTexts == {"bm2"}

None == "None"      \* Python None / SQL NULL in a string column
NoTime == -1        \* SQL NULL in a timestamp column
NoId == 0           \* no row

\* datetime.utcnow() / datetime.now(): the clock as one timestamp (minutes)
utcnow == today * (24 * 60) + now

Min(a, b) == IF a < b THEN a ELSE b

----------------------------------------------------------------------------
(* models.py: enums and column defaults                                     *)

ApplicationStatus ==
  {"draft", "submitted", "under_review", "approved", "rejected",
   "in_sandbox", "graduated"}

DRAFT == "draft"

\* HTTP status codes used by the handlers
HTTP_200_OK == 200
HTTP_400_BAD_REQUEST == 400
HTTP_404_NOT_FOUND == 404
HTTP_500_INTERNAL_SERVER_ERROR == 500

NotFoundDetail == "Application not found or not authorized"
NotDraftDetail == "Application can only be submitted from draft status"

Response(code, detail, body) == [code |-> code, detail |-> detail, body |-> body]

\* HTTPException(status_code, detail): no body
HTTPException(code, detail) == Response(code, detail, <<>>)

Request(op, user, app, reg, name) ==
  [op |-> op, user |-> user, app |-> app, reg |-> reg, name |-> name]

----------------------------------------------------------------------------
(* routes/applications.py                                                   *)

\* select(Company).filter(registration_number == reg) ... .first()
CompanyByRegistration(reg) ==
  LET hits == SelectSeq(companies, LAMBDA c : c.registration_number = reg)
  IN IF Len(hits) = 0 THEN NoId ELSE hits[1].id

\* Company(...) built from the request, id assigned by the flush
NewCompany(reg, legal_name) ==
  [id |-> Len(companies) + 1,
   legal_name |-> legal_name,
   registration_number |-> reg]

\* f"APP-{datetime.now().strftime('%Y%m%d')}-{company.id}"
ApplicationNumber(day, company_id) == <<"APP", day, company_id>>

\* faulty variant: the application is linked to the company created last, not to
\* the company of the request
NewApplication_LastCompany(company_id, user, business_model) ==
  [id |-> Len(applications) + 1,
   application_number |-> ApplicationNumber(today, company_id),
   company_id |-> IF Len(companies) = 0 THEN company_id ELSE Len(companies),
   applicant_id |-> user,
   status |-> DRAFT,
   business_model |-> business_model,
   psd1_licensing_status |-> None,
   submitted_at |-> NoTime]

\* Application(...) as inserted: status takes the column default, the
\* nullable columns not passed to the constructor are NULL
NewApplication(company_id, user, business_model) ==
  [id |-> Len(applications) + 1,
   application_number |-> ApplicationNumber(today, company_id),
   company_id |-> company_id,
   applicant_id |-> user,
   status |-> DRAFT,
   business_model |-> business_model,
   psd1_licensing_status |-> None,
   submitted_at |-> NoTime]

\* ApplicationRead.model_validate(row)
ApplicationRead(row) == row

\* faulty variant: the query filters on the id only
OwnedApplication_AnyOwner(application_id, user) ==
  LET hits == SelectSeq(applications, LAMBDA a : a.id = application_id)
  IN IF Len(hits) = 0 THEN NoId ELSE hits[1].id

\* select(Application).filter(id == application_id, applicant_id == user.id)
\*   ... .first()
OwnedApplication(application_id, user) ==
  LET hits == SelectSeq(applications,
                 LAMBDA a : a.id = application_id /\ a.applicant_id = user)
  IN IF Len(hits) = 0 THEN NoId ELSE hits[1].id

\* faulty variant: an upsert, the found company takes the request's legal name
FoundOrCreated_Upsert(reg, legal_name) ==
  LET found == CompanyByRegistration(reg)
  IN IF found = NoId
       THEN [id |-> Len(companies) + 1,
             companies |-> Append(companies, NewCompany(reg, legal_name))]
       ELSE [id |-> found,
             companies |-> [companies EXCEPT ![found].legal_name = legal_name]]

\* the company of the request: the row found by registration number, or a
\* new row added and flushed when there is none
FoundOrCreated(reg, legal_name) ==
  LET found == CompanyByRegistration(reg)
  IN IF found = NoId
       THEN [id |-> Len(companies) + 1,
             companies |-> Append(companies, NewCompany(reg, legal_name))]
       ELSE [id |-> found, companies |-> companies]

create_application(user, reg, legal_name, business_model) ==
  LET company == FoundOrCreated(reg, legal_name)
      flushed == company.companies
      db_application == NewApplication(company.id, user, business_model)
      \* applications.application_number is UNIQUE: the commit fails
      duplicate == \E i \in 1..Len(applications) :
                      applications[i].application_number
                        = db_application.application_number
  IN /\ Len(applications) < MaxApps
     /\ request' = Request("create_application", user, NoId, reg, legal_name)
     /\ IF duplicate
          THEN /\ response' = HTTPException(HTTP_500_INTERNAL_SERVER_ERROR,
                                            "IntegrityError")
               /\ UNCHANGED <<companies, applications>>
          ELSE /\ companies' = flushed
               /\ applications' = Append(applications, db_application)
               /\ response' = Response(HTTP_200_OK, "",
                                       <<ApplicationRead(db_application)>>)
     /\ UNCHANGED <<users, audit_trail, now, today, locked_at>>

get_application(user, application_id) ==
  LET application == OwnedApplication(application_id, user)
  IN /\ request' = Request("get_application", user, application_id, None, None)
     /\ response' =
          IF application = NoId
            THEN HTTPException(HTTP_404_NOT_FOUND, NotFoundDetail)
            ELSE Response(HTTP_200_OK, "",
                          <<ApplicationRead(applications[application])>>)
     /\ UNCHANGED <<users, audit_trail, companies, applications, now, today,
                    locked_at>>

\* faulty variant: the listing query has no filter
UserApplications_All(user) == applications

\* select(Application).filter(applicant_id == user.id)
UserApplications(user) ==
  SelectSeq(applications, LAMBDA a : a.applicant_id = user)

\* apaginate: query.limit(size).offset(size * (page - 1))
Paginate(rows, page, size) ==
  SubSeq(rows, size * (page - 1) + 1, Min(size * page, Len(rows)))

ListPage(user, page, size) == Paginate(UserApplications(user), page, size)

\* pages a client walks through: until past the last row
MaxPage == MaxApps + 1

list_applications(user, page, size) ==
  /\ request' = [op |-> "list_applications", user |-> user,
                 page |-> page, size |-> size]
  /\ response' = Response(HTTP_200_OK, "", ListPage(user, page, size))
  /\ UNCHANGED <<users, audit_trail, companies, applications, now, today,
                 locked_at>>

\* for field, value in application_update.model_dump(exclude_unset=True)
ApplyUpdate(row, business_model) ==
  IF business_model = None THEN row
  ELSE [row EXCEPT !.business_model = business_model]

update_application(user, application_id, business_model) ==
  LET application == OwnedApplication(application_id, user)
  IN /\ request' = Request("update_application", user, application_id, None, None)
     /\ IF application = NoId
          THEN /\ response' = HTTPException(HTTP_404_NOT_FOUND, NotFoundDetail)
               /\ UNCHANGED applications
          ELSE /\ applications' =
                    [applications EXCEPT
                       ![application] = ApplyUpdate(@, business_model)]
               /\ response' = Response(HTTP_200_OK, "",
                                <<ApplicationRead(applications'[application])>>)
     /\ UNCHANGED <<users, audit_trail, companies, now, today, locked_at>>

\* faulty variant: the status test is missing
Submittable_Always(row) == TRUE

\* the status test of submit_application
Submittable(row) == row.status = DRAFT

\* faulty variant: the status is set but the timestamp is forgotten
Submitted_NoTimestamp(row) == [row EXCEPT !.status = "submitted"]

\* application.status = "submitted"; application.submitted_at = utcnow()
Submitted(row) == [row EXCEPT !.status = "submitted", !.submitted_at = utcnow]

submit_application(user, application_id) ==
  LET application == OwnedApplication(application_id, user)
  IN /\ request' = Request("submit_application", user, application_id, None, None)
     /\ IF application = NoId
          THEN /\ response' = HTTPException(HTTP_404_NOT_FOUND, NotFoundDetail)
               /\ UNCHANGED applications
          ELSE IF ~Submittable(applications[application])
            THEN /\ response' = HTTPException(HTTP_400_BAD_REQUEST,
                                              NotDraftDetail)
                 /\ UNCHANGED applications
            ELSE /\ applications' =
                      [applications EXCEPT ![application] = Submitted(@)]
                 /\ response' = Response(HTTP_200_OK,
                                  "Application submitted successfully", <<>>)
     /\ UNCHANGED <<users, audit_trail, companies, now, today, locked_at>>

\* the dict answered by get_application_compliance
ComplianceStatus(row) ==
  [application_id |-> row.id,
   psd1_licensing_status |-> row.psd1_licensing_status,
   overall_status |-> "pending"]

get_application_compliance(user, application_id) ==
  LET application == OwnedApplication(application_id, user)
  IN /\ request' = Request("get_application_compliance", user,
                           application_id, None, None)
     /\ response' =
          IF application = NoId
            THEN HTTPException(HTTP_404_NOT_FOUND, NotFoundDetail)
            ELSE Response(HTTP_200_OK, "",
                          <<ComplianceStatus(applications[application])>>)
     /\ UNCHANGED <<users, audit_trail, companies, applications, now, today,
                    locked_at>>

----------------------------------------------------------------------------
(* The clock                                                                *)

Tick ==
  /\ now < MaxTicks * TickMinutes
  /\ now' = now + TickMinutes
  /\ UNCHANGED <<users, audit_trail, companies, applications, today,
                 request, response, locked_at>>

NextDay ==
  /\ today < MaxDay
  /\ today' = today + 1
  /\ now' = 0
  /\ UNCHANGED <<users, audit_trail, companies, applications,
                 request, response, locked_at>>

----------------------------------------------------------------------------
(* models.py User: the row of a registered user with the column defaults    *)

NewUser(email, password) ==
  [email |-> email,
   password |-> password,
   last_login_ip |-> None,
   login_attempts |-> 0,
   account_locked |-> FALSE]

----------------------------------------------------------------------------
(* users.py: UserManager                                                    *)

MAX_LOGIN_ATTEMPTS == 5
ACCOUNT_LOCKOUT_DURATION == 30     \* timedelta(minutes=30)

Emails == {"a@x", "b@x", "z@x"}    \* "z@x" is not registered
Passwords == {"secret", "wrong"}
Hosts == {None, "10.0.0.1"}        \* request.client.host, None without request
NoUser == "nobody"
NoHash == <<>>                     \* SQL NULL in a hash column

\* Python truthiness of an optional string
Truthy(s) == s # None /\ s # ""

\* what goes wrong inside the try block of _log_security_event:
\* nothing, the session cannot be obtained, or the database refuses the commit
AuditFaults == {"none", "session", "commit"}

\* AuditTrail(...) as built by _log_security_event: the three hash columns
\* are not passed to the constructor
AuditEntry(user_id, event_type) ==
  [event_type |-> event_type,
   user_id |-> user_id,
   action |-> event_type,
   psd_sections |-> IF event_type \in {"failed_login", "account_lockout_attempt"}
                      THEN <<"PSD-12">> ELSE <<>>,
   current_hash |-> NoHash,
   previous_hash |-> NoHash,
   chain_hash |-> NoHash]

\* session.add(entry); session.commit() against the audit_trail table:
\* current_hash and chain_hash are NOT NULL
CommitAuditEntry(entry, fault) ==
  IF fault # "none" \/ entry.current_hash = NoHash \/ entry.chain_hash = NoHash
    THEN [ok |-> FALSE, audit_trail |-> audit_trail]
    ELSE [ok |-> TRUE, audit_trail |-> Append(audit_trail, entry)]

\* faulty variant: the except clause re-raises
_log_security_event_Reraise(user_id, event_type, fault) ==
  LET written == CommitAuditEntry(AuditEntry(user_id, event_type), fault)
  IN [raised |-> ~written.ok, stored |-> written.ok,
      audit_trail |-> written.audit_trail]

\* try: ... except Exception: print(...)   -- the exception is swallowed
_log_security_event(user_id, event_type, fault) ==
  LET written == CommitAuditEntry(AuditEntry(user_id, event_type), fault)
  IN [raised |-> FALSE, stored |-> written.ok,
      audit_trail |-> written.audit_trail]

\* user_db.get_by_email(email)
get_by_email(email) ==
  IF \E u \in UserIds : users[u].email = email
    THEN CHOOSE u \in UserIds : users[u].email = email
    ELSE NoUser

\* user.verify_password(password)
verify_password(row, password) == row.password = password

\* outcome of a call: the users table it leaves, the user it returns,
\* the exception it raises, the audit_trail table it leaves
Returned(table, user) ==
  [users |-> table, user |-> user, raised |-> None, audit_trail |-> audit_trail]

Raised(table, exception) ==
  [users |-> table, user |-> NoUser, raised |-> exception,
   audit_trail |-> audit_trail]

\* "await self._log_security_event(...)" followed by the caller's return
AfterLog(log, outcome) ==
  IF log.raised
    THEN Raised(outcome.users, "Exception")
    ELSE [outcome EXCEPT !.audit_trail = log.audit_trail]

\* faulty variant: the account is locked one attempt late
FailedLogin_LockLate(row) ==
  LET attempts == row.login_attempts + 1
  IN [row EXCEPT !.login_attempts = attempts,
                 !.account_locked =
                    IF attempts > MAX_LOGIN_ATTEMPTS THEN TRUE ELSE @]

\* the failed-password branch of authenticate_user
FailedLogin(row) ==
  LET attempts == row.login_attempts + 1
  IN [row EXCEPT !.login_attempts = attempts,
                 !.account_locked =
                    IF attempts >= MAX_LOGIN_ATTEMPTS THEN TRUE ELSE @]

\* faulty variant: the lock is lifted but the failed attempts stay counted
SuccessfulLogin_KeepAttempts(row) ==
  [row EXCEPT !.account_locked = FALSE,
              !.last_login_ip = None]

\* the successful branch of authenticate_user
SuccessfulLogin(row) ==
  [row EXCEPT !.login_attempts = 0,
              !.account_locked = FALSE,
              !.last_login_ip = None]

\* the lockout test of authenticate_user: only an account that is locked AND
\* has a last_login_ip AND has reached the attempt limit enters the expiry
\* check
LockoutChecked(row) ==
  /\ row.account_locked
  /\ Truthy(row.last_login_ip)
  /\ row.login_attempts >= MAX_LOGIN_ATTEMPTS

\* the event types authenticate_user logs
LoginEvents == {"failed_login", "account_lockout_attempt", "successful_login"}

\* authenticate_user, with the result of its call of _log_security_event
\* passed in as a function of (user id, event type)
authenticate_user_with(email, password, log) ==
  LET user == get_by_email(email)
  IN IF user = NoUser
       THEN AfterLog(log[None, "failed_login"], Returned(users, NoUser))
     ELSE IF LockoutChecked(users[user])
       \* lockout_expiry = user.last_login_attempt + ...: User has no
       \* last_login_attempt and nothing ever assigns one
       THEN Raised(users, "AttributeError")
     ELSE IF ~verify_password(users[user], password)
       THEN AfterLog(log[user, "failed_login"],
                     Returned([users EXCEPT ![user] = FailedLogin(@)], NoUser))
     ELSE AfterLog(log[user, "successful_login"],
                   Returned([users EXCEPT ![user] = SuccessfulLogin(@)], user))

AuthOutcome(email, password, fault) ==
  authenticate_user_with(email, password,
    [user_id \in UserIds \cup {None}, event_type \in LoginEvents |->
       _log_security_event(user_id, event_type, fault)])

\* the call as its caller sees it
CallResponse(outcome) ==
  Response(0,
           IF outcome.raised = None THEN "returned" ELSE outcome.raised,
           IF outcome.user = NoUser THEN <<>> ELSE <<outcome.user>>)

AuthRequest(op, email, password, fault) ==
  [op |-> op, email |-> email, password |-> password, fault |-> fault]

\* history variable: the moment each account became locked
LockedAt(table) ==
  [u \in UserIds |->
     IF ~table[u].account_locked THEN NoTime
     ELSE IF users[u].account_locked THEN locked_at[u]
     ELSE utcnow]

ApplyOutcome(outcome) ==
  /\ \A u \in UserIds : outcome.users[u].login_attempts <= MaxAttempts
  /\ users' = outcome.users
  /\ audit_trail' = outcome.audit_trail
  /\ locked_at' = LockedAt(outcome.users)
  /\ response' = CallResponse(outcome)
  /\ UNCHANGED <<companies, applications, now, today>>

authenticate_user(email, password, fault) ==
  /\ request' = AuthRequest("authenticate_user", email, password, fault)
  /\ ApplyOutcome(AuthOutcome(email, password, fault))

\* authenticate_with_psd12_compliance(credentials, user_manager)
Psd12Outcome(email, password, host, fault) ==
  IF ~Truthy(email) \/ ~Truthy(password)
    THEN Returned(users, NoUser)
    ELSE LET outcome == AuthOutcome(email, password, fault)
         IN IF outcome.user = NoUser
              THEN outcome
              ELSE [outcome EXCEPT !.users[outcome.user].last_login_ip = host]

authenticate_with_psd12_compliance(email, password, host, fault) ==
  /\ request' = AuthRequest("authenticate_with_psd12_compliance",
                            email, password, fault)
  /\ ApplyOutcome(Psd12Outcome(email, password, host, fault))

\* the three on_after_* hooks: each logs one security event and returns
HookOutcome(user, event_type, fault) ==
  AfterLog(_log_security_event(user, event_type, fault), Returned(users, NoUser))

on_after_register(user, fault) ==
  /\ request' = AuthRequest("on_after_register", users[user].email, None, fault)
  /\ ApplyOutcome(HookOutcome(user, "user_registration", fault))

on_after_forgot_password(user, fault) ==
  /\ request' = AuthRequest("on_after_forgot_password", users[user].email,
                            None, fault)
  /\ ApplyOutcome(HookOutcome(user, "password_reset_requested", fault))

on_after_request_verify(user, fault) ==
  /\ request' = AuthRequest("on_after_request_verify", users[user].email,
                            None, fault)
  /\ ApplyOutcome(HookOutcome(user, "email_verification_requested", fault))

----------------------------------------------------------------------------
(* users.py: UserManager.validate_password                                  *)
(* A str is a sequence of one-character strings.                            *)

PASSWORD_COMPLEXITY_MIN_LENGTH == 12

upper_letters ==
  <<"A", "B", "C", "D", "E", "F", "G", "H", "I", "J", "K", "L", "M",
    "N", "O", "P", "Q", "R", "S", "T", "U", "V", "W", "X", "Y", "Z">>

lower_letters ==
  <<"a", "b", "c", "d", "e", "f", "g", "h", "i", "j", "k", "l", "m",
    "n", "o", "p", "q", "r", "s", "t", "u", "v", "w", "x", "y", "z">>

\* char.isupper(), char.islower(), char.isdigit()
isupper(char) == \E i \in 1..Len(upper_letters) : upper_letters[i] = char
islower(char) == \E i \in 1..Len(lower_letters) : lower_letters[i] = char
isdigit(char) == char \in {"0", "1", "2", "3", "4", "5", "6", "7", "8", "9"}

\* the character class of re.search(r'[!@#$%^&*(),.?":{}|<>]', password)
special_characters ==
  {"!", "@", "#", "$", "%", "^", "&", "*", "(", ")", ",", ".", "?", "\"",
   ":", "{", "}", "|", "<", ">"}

\* str.lower()
lower(text) ==
  [i \in 1..Len(text) |->
     IF isupper(text[i])
       THEN lower_letters[CHOOSE k \in 1..Len(upper_letters) :
                             upper_letters[k] = text[i]]
       ELSE text[i]]

\* "needle in text" for two str
Contains(text, needle) ==
  \E i \in 0..(Len(text) - Len(needle)) :
     SubSeq(text, i + 1, i + Len(needle)) = needle

\* any(...) over the truth values a generator expression yields
any(tests) == \E i \in 1..Len(tests) : tests[i]

\* re.search(r'[...]', text) is not None, for a class of characters
re_search(class, text) == \E i \in 1..Len(text) : text[i] \in class

common_passwords ==
  {<<"p", "a", "s", "s", "w", "o", "r", "d">>,
   <<"1", "2", "3", "4", "5", "6">>,
   <<"q", "w", "e", "r", "t", "y">>,
   <<"a", "d", "m", "i", "n">>,
   <<"l", "e", "t", "m", "e", "i", "n">>}

\* user.email as a str
EmailText(email) ==
  CASE email = "a@x" -> <<"a", "@", "x">>
    [] email = "b@x" -> <<"b", "@", "x">>
    [] email = "z@x" -> <<"z", "@", "x">>
    [] OTHER -> <<>>

\* errors.append(...) when the test holds
AppendIf(errors, test, message) ==
  IF test THEN Append(errors, message) ELSE errors

TooShort == "Password should be at least 12 characters."
HasEmail == "Password should not contain e-mail address."
NoUpper == "Password should contain at least one uppercase letter."
NoLower == "Password should contain at least one lowercase letter."
NoNumber == "Password should contain at least one number."
NoSpecial == "Password should contain at least one special character."
TooCommon == "Password is too common and easily guessable."

\* faulty variant: the tests are chained with elif, only the first reason is
\* kept
PasswordErrors_FirstOnly(password, email) ==
  LET chars == 1..Len(password)
  IN IF Len(password) < PASSWORD_COMPLEXITY_MIN_LENGTH THEN <<TooShort>>
     ELSE IF Truthy(email)
               /\ Contains(lower(password), lower(EmailText(email)))
       THEN <<HasEmail>>
     ELSE IF ~any([i \in chars |-> isupper(password[i])]) THEN <<NoUpper>>
     ELSE IF ~any([i \in chars |-> islower(password[i])]) THEN <<NoLower>>
     ELSE IF ~any([i \in chars |-> isdigit(password[i])]) THEN <<NoNumber>>
     ELSE IF ~re_search(special_characters, password) THEN <<NoSpecial>>
     ELSE IF lower(password) \in common_passwords THEN <<TooCommon>>
     ELSE <<>>

\* the list "errors" when the last test of validate_password has run
PasswordErrors(password, email) ==
  LET chars == 1..Len(password)
      e1 == AppendIf(<<>>, Len(password) < PASSWORD_COMPLEXITY_MIN_LENGTH,
                     TooShort)
      e2 == AppendIf(e1, Truthy(email)
                           /\ Contains(lower(password), lower(EmailText(email))),
                     HasEmail)
      e3 == AppendIf(e2, ~any([i \in chars |-> isupper(password[i])]), NoUpper)
      e4 == AppendIf(e3, ~any([i \in chars |-> islower(password[i])]), NoLower)
      e5 == AppendIf(e4, ~any([i \in chars |-> isdigit(password[i])]), NoNumber)
      e6 == AppendIf(e5, ~re_search(special_characters, password), NoSpecial)
      e7 == AppendIf(e6, lower(password) \in common_passwords, TooCommon)
  IN e7

\* if errors: raise InvalidPasswordException(reason=errors)
PasswordOutcome(password, email) ==
  LET errors == PasswordErrors(password, email)
  IN IF errors # <<>>
       THEN Response(0, "InvalidPasswordException", errors)
       ELSE Response(0, "returned", <<>>)

PasswordRequest(password, user) ==
  [op |-> "validate_password", password |-> password, user |-> user]

\* the call not yet answered
Pending == Response(0, "", <<>>)

validate_password ==
  /\ request.op = "validate_password"
  /\ response = Pending
  /\ response' = PasswordOutcome(request.password, users[request.user].email)
  /\ UNCHANGED <<users, audit_trail, companies, applications, now, today,
                 request, locked_at>>

\* the pieces password inputs are put together from
Chunks ==
  {<<"p", "a", "s", "s", "w", "o", "r", "d">>,
   <<"P", "A", "S", "S", "W", "O", "R", "D">>,
   <<"1", "2", "3", "4", "5", "6">>,
   <<"q", "w", "e", "r", "t", "y">>,
   <<"a", "@", "x">>,
   <<"A", "@", "X">>,
   <<"K", "x", "9">>,
   <<"!">>,
   <<"_">>}

RECURSIVE Concatenations(_)
Concatenations(n) ==
  IF n = 0 THEN {<<>>}
  ELSE LET shorter == Concatenations(n - 1)
       IN shorter \cup {p \o c : p \in shorter, c \in Chunks}

PasswordInputs == Concatenations(MaxChunks)

----------------------------------------------------------------------------
(* services/ai-orchestration-service/src/main.py: the three agents          *)
(* A dict is a function from its keys; a score is held in tenths, so that   *)
(* 0.0 is 0 and 1.0 is 10.                                                  *)

\* the str "PSD-<number>" and "PSDIR-<number>", a str being a sequence of
\* one-character strings
PSD(number) == <<"P", "S", "D", "-">> \o number
PSDIR(number) == <<"P", "S", "D", "I", "R", "-">> \o number

\* get_psd_requirements_for_document_type: the dict "requirements"
requirements ==
  [business_plan |->
     (PSD(<<"1">>) :> "Business model and licensing requirements")
     @@ (PSD(<<"3">>) :> "E-money business model compliance")
     @@ (PSD(<<"6">>) :> "Authorization requirements"),
   financial_statements |->
     (PSD(<<"1">>) :> "Financial capacity verification")
     @@ (PSD(<<"8">>) :> "Capital requirements compliance"),
   security_assessment |->
     (PSD(<<"1", "2">>) :> "Cybersecurity and operational resilience"),
   legal_opinion |->
     (PSD(<<"1">>) :> "Legal compliance verification")
     @@ (PSD(<<"6">>) :> "Authorization legal basis")]

\* the empty dict {}
EmptyDict == <<>>

\* requirements.get(document_type, {})
get_psd_requirements_for_document_type(document_type) ==
  IF document_type \in DOMAIN requirements
    THEN requirements[document_type]
    ELSE EmptyDict

\* document types a request may name: the four of the catalog and others
DocumentTypes ==
  {"business_plan", "financial_statements", "security_assessment",
   "legal_opinion", "annual_report", ""}

DocumentContents == {"Extracted content A", "Extracted content B"}

ApplicationData ==
  {[company |-> c, product |-> p] :
     c \in {"Acme", "Bolt"}, p \in {"wallet", "card"}}

\* what "await self.agent.run(prompt)" does: it raises, or it returns a
\* result whose content is some text
LLMFailures == {"Request timed out.", "Rate limit reached.", "Connection error."}

\* json.loads: the texts that are JSON documents, with the value of each
JsonDocuments ==
  ("{\"compliance_status\": \"compliant\", \"confidence_score\": 0.9, \"recommendations\": [\"r1\"]}"
     :> [compliance_status |-> "compliant", confidence_score |-> 9,
         recommendations |-> <<"r1">>])
  @@ ("{\"compliance_status\": \"partial\", \"confidence_score\": 0.5, \"recommendations\": [\"r1\", \"r2\"]}"
     :> [compliance_status |-> "partial", confidence_score |-> 5,
         recommendations |-> <<"r1", "r2">>])
  @@ ("{\"compliance_status\": \"non_compliant\"}"
     :> [compliance_status |-> "non_compliant"])
  @@ ("{\"risk_score\": 0.2, \"priority\": \"LOW\"}"
     :> [risk_score |-> 2, priority |-> "LOW"])
  @@ ("{\"overall_compliance_score\": 0.7}"
     :> [overall_compliance_score |-> 7])
  @@ ("[]" :> <<>>)

\* texts a model answers with that are not JSON
NotJson == {"", "Here is my analysis: the document is compliant.",
            "{'risk_score': 0.2}"}

Contents == DOMAIN JsonDocuments \cup NotJson

LLMOutcomes ==
  {[raised |-> e, content |-> None] : e \in LLMFailures}
    \cup {[raised |-> None, content |-> c] : c \in Contents}

\* str(e) of the json.JSONDecodeError for a text that is not JSON
JSONDecodeError(content) ==
  IF content = ""
    THEN "Expecting value: line 1 column 1 (char 0)"
    ELSE IF content = "{'risk_score': 0.2}"
      THEN "Expecting property name enclosed in double quotes: line 1 column 2 (char 1)"
      ELSE "Expecting value: line 1 column 1 (char 0)"

\* result of a call: the value returned, or the text of the exception raised
AgentReturned(value) == [raised |-> None, value |-> value]
AgentRaised(error) == [raised |-> error, value |-> None]

json_loads(content) ==
  IF content \in DOMAIN JsonDocuments
    THEN AgentReturned(JsonDocuments[content])
    ELSE AgentRaised(JSONDecodeError(content))

ErrorTexts == LLMFailures \cup {JSONDecodeError(c) : c \in NotJson}

\* faulty variant: no except clause, the exception leaves the method
TryRun_NoExcept(llm, failsafe) ==
  IF llm.raised # None
    THEN AgentRaised(llm.raised)
    ELSE json_loads(llm.content)

\* try: result = await self.agent.run(prompt); return json.loads(result.content)
\* except Exception as e: return {..., "error": str(e)}
\* (failsafe: the dict of the except clause, for every error text)
TryRun(llm, failsafe) ==
  IF llm.raised # None
    THEN AgentReturned(failsafe[llm.raised])
    ELSE LET loaded == json_loads(llm.content)
         IN IF loaded.raised # None
              THEN AgentReturned(failsafe[loaded.raised])
              ELSE loaded

\* the dicts of the three except clauses
ValidationError ==
  [e \in ErrorTexts |->
     [compliance_status |-> "error", confidence_score |-> 0, error |-> e]]

TriageError ==
  [e \in ErrorTexts |-> [risk_score |-> 10, priority |-> "HIGH", error |-> e]]

AnalysisError ==
  [e \in ErrorTexts |-> [overall_compliance_score |-> 0, error |-> e]]

\* the agent call as its caller sees it
AgentResponse(result) ==
  IF result.raised = None
    THEN Response(0, "returned", <<result.value>>)
    ELSE Response(0, result.raised, <<>>)

AgentRequest(op, args) == [op |-> op, args |-> args]

\* DocumentValidationAgent.validate_document
validate_document(document_content, document_type, psd_requirements, llm) ==
  /\ request' = AgentRequest("validate_document",
                   <<document_content, document_type, psd_requirements>>)
  /\ response' = AgentResponse(TryRun(llm, ValidationError))
  /\ UNCHANGED <<users, audit_trail, companies, applications, now, today,
                 locked_at>>

\* ApplicationTriageAgent.triage_application
triage_application(application_data, llm) ==
  /\ request' = AgentRequest("triage_application", <<application_data>>)
  /\ response' = AgentResponse(TryRun(llm, TriageError))
  /\ UNCHANGED <<users, audit_trail, companies, applications, now, today,
                 locked_at>>

\* ComplianceAnalysisAgent.analyze_compliance
analyze_compliance(application_data, llm) ==
  /\ request' = AgentRequest("analyze_compliance", <<application_data>>)
  /\ response' = AgentResponse(TryRun(llm, AnalysisError))
  /\ UNCHANGED <<users, audit_trail, companies, applications, now, today,
                 locked_at>>

----------------------------------------------------------------------------
(* services/ai-orchestration-service/src/main.py: the document validation  *)
(* workflow (create_document_validation_workflow) and its helpers           *)

END == "__end__"

\* workflow.set_entry_point(...) and workflow.add_edge(...)
entry_point == "extract_content"

edges ==
  ("extract_content" :> "validate_compliance")
  @@ ("validate_compliance" :> "aggregate_results")
  @@ ("aggregate_results" :> END)

\* {**state, ...}: the keys of the update replace those of the state
Merge(state, update) == update @@ state

\* state.get(key, [])
Get(state, key) == IF key \in DOMAIN state THEN state[key] ELSE <<>>

\* a document of a request: the route passes each as a dict
\* (DocumentValidationRequest.documents: List[Dict[str, Any]]); an object
\* with the same entries as attributes is what the nodes read
Document(is_dict, id, document_type) ==
  [is_dict |-> is_dict, id |-> id, document_type |-> document_type,
   file_name |-> "file.pdf"]

WorkflowDocumentTypes == {"business_plan", "security_assessment", "annual_report"}

\* the lists of documents of a request, of n documents and of up to n
DocumentLists(n) ==
  UNION { { [i \in 1..k |-> Document(d[i][1], i, d[i][2])] :
              d \in [1..k -> BOOLEAN \X WorkflowDocumentTypes] }
          : k \in 0..n }

AttributeError == "'dict' object has no attribute 'document_type'"
KeyError == "'confidence_score'"
TypeError == "list indices must be integers or slices, not str"

\* extract_text_from_document
extract_text_from_document(document) ==
  IF document.is_dict
    THEN AgentRaised(AttributeError)
    ELSE AgentReturned(<<"Extracted content from", document.document_type,
                         document.file_name>>)

\* the node extract_content
extract_document_content(state) ==
  LET documents == Get(state, "documents")
      processed_docs ==
        [i \in 1..Len(documents) |->
           [id |-> documents[i].id,
            type |-> documents[i].document_type,
            content |-> extract_text_from_document(documents[i]).value,
            original |-> documents[i]]]
  IN IF \E i \in 1..Len(documents) :
          extract_text_from_document(documents[i]).raised # None
       THEN AgentRaised(AttributeError)
       ELSE AgentReturned(
              Merge(state, [processed_documents |-> processed_docs]))

\* the node validate_compliance; llm[i] is the answer of the language model
\* to the prompt for the i-th document
validate_psd_compliance(state, llm) ==
  LET processed_docs == Get(state, "processed_documents")
      validation_results ==
        [i \in 1..Len(processed_docs) |->
           [document_id |-> processed_docs[i].id,
            validation_result |-> TryRun(llm[i], ValidationError).value]]
  IN AgentReturned(Merge(state, [validation_results |-> validation_results]))

RECURSIVE sum(_)
sum(scores) ==
  IF scores = <<>> THEN 0 ELSE Head(scores) + sum(Tail(scores))

\* a JSON object (dict), as opposed to a JSON array (list)
IsDict(value) == value # <<>>

\* calculate_overall_validation_score; the quotient is held in thousandths
calculate_overall_validation_score(validation_results) ==
  LET n == Len(validation_results)
  IN IF n = 0 THEN AgentReturned(0)
     ELSE IF \E i \in 1..n : ~IsDict(validation_results[i].validation_result)
       THEN AgentRaised(TypeError)
     ELSE IF \E i \in 1..n :
               "confidence_score"
                  \notin DOMAIN validation_results[i].validation_result
       THEN AgentRaised(KeyError)
     ELSE AgentReturned(
            (100 * sum([i \in 1..n |->
                validation_results[i].validation_result.confidence_score]))
              \div n)

\* the recommendations of one validation: validation.get('recommendations')
Recommended(validation) ==
  IF "recommendations" \in DOMAIN validation
    THEN {validation.recommendations[i] :
            i \in 1..Len(validation.recommendations)}
    ELSE {}

\* list(set(...)): the elements of a set, each once, in some order
Lists(set) ==
  {list \in [1..Cardinality(set) -> set] :
     \A x \in set : \E i \in 1..Cardinality(set) : list[i] = x}

\* generate_validation_recommendations: the lists it may return
generate_validation_recommendations(validation_results) ==
  Lists(UNION {Recommended(validation_results[i].validation_result) :
                 i \in 1..Len(validation_results)})

\* the node aggregate_results, returning the recommendations in this order
aggregate_validation_results(state, recommendations) ==
  LET validation_results == Get(state, "validation_results")
      overall_score == calculate_overall_validation_score(validation_results)
  IN IF overall_score.raised # None
       THEN overall_score
       ELSE AgentReturned(
              Merge(state, [overall_validation_score |-> overall_score.value,
                            recommendations |-> recommendations,
                            status |-> "validation_complete"]))

\* a run of the compiled graph: the node to run next, the nodes run so far,
\* the state, and the exception if a node raised
Run(node, ran, state, raised) ==
  [code |-> 0,
   detail |-> IF raised # None THEN raised
              ELSE IF node = END THEN "returned" ELSE "running",
   body |-> <<state>>,
   node |-> node,
   ran |-> ran]

\* the run after the node it was at has answered
AfterNode(result) ==
  IF result.raised # None
    THEN Run(None, Append(response.ran, response.node), response.body[1],
             result.raised)
    ELSE Run(edges[response.node], Append(response.ran, response.node),
             result.value, None)

AtNode(node) == request.op = "ainvoke" /\ response.node = node

\* workflow.ainvoke(initial_state), as validate_documents calls it
ainvoke(documents) ==
  LET initial_state == [documents |-> documents,
                        psd_requirements |-> EmptyDict,
                        status |-> "processing"]
  IN /\ request' = AgentRequest("ainvoke", <<initial_state>>)
     /\ response' = Run(entry_point, <<>>, initial_state, None)
     /\ UNCHANGED <<users, audit_trail, companies, applications, now, today,
                    locked_at>>

extract_content ==
  /\ AtNode("extract_content")
  /\ response' = AfterNode(extract_document_content(response.body[1]))
  /\ UNCHANGED <<users, audit_trail, companies, applications, now, today,
                 request, locked_at>>

validate_compliance ==
  /\ AtNode("validate_compliance")
  /\ \E llm \in [1..Len(Get(response.body[1], "processed_documents"))
                   -> LLMOutcomes] :
        response' = AfterNode(validate_psd_compliance(response.body[1], llm))
  /\ UNCHANGED <<users, audit_trail, companies, applications, now, today,
                 request, locked_at>>

aggregate_results ==
  /\ AtNode("aggregate_results")
  /\ \E recommendations \in generate_validation_recommendations(
                               Get(response.body[1], "validation_results")) :
        response' = AfterNode(aggregate_validation_results(response.body[1],
                                                           recommendations))
  /\ UNCHANGED <<users, audit_trail, companies, applications, now, today,
                 request, locked_at>>

----------------------------------------------------------------------------
(* The catalog of determinations: compliance_health_check of                *)
(* namfisa_core/main.py and ComplianceScore of namfisa_core/models.py      *)

\* faulty variant: PSD-8 is missing from the list
psd_sections_WithoutPSD8 ==
  <<PSD(<<"1">>), PSD(<<"3">>), PSD(<<"4">>), PSD(<<"5">>), PSD(<<"6">>),
    PSD(<<"9">>), PSD(<<"1", "2">>), PSD(<<"1", "3">>)>>

\* "psd_sections" of compliance_health_check
psd_sections ==
  <<PSD(<<"1">>), PSD(<<"3">>), PSD(<<"4">>), PSD(<<"5">>), PSD(<<"6">>),
    PSD(<<"8">>), PSD(<<"9">>), PSD(<<"1", "2">>), PSD(<<"1", "3">>)>>

\* "psdir_sections" of compliance_health_check
psdir_sections ==
  <<PSDIR(<<"4">>), PSDIR(<<"5">>), PSDIR(<<"7">>), PSDIR(<<"8">>),
    PSDIR(<<"9">>), PSDIR(<<"1", "0">>), PSDIR(<<"1", "1">>)>>

\* the columns of ComplianceScore, by name
ComplianceScore ==
  {<<"i", "d">>,
   <<"a", "p", "p", "l", "i", "c", "a", "t", "i", "o", "n", "_", "i", "d">>,
   <<"p", "a", "r", "t", "i", "c", "i", "p", "a", "n", "t", "_", "i", "d">>,
   <<"o", "v", "e", "r", "a", "l", "l", "_", "s", "c", "o", "r", "e">>,
   <<"p", "s", "d", "1", "_", "s", "c", "o", "r", "e">>,
   <<"p", "s", "d", "3", "_", "s", "c", "o", "r", "e">>,
   <<"p", "s", "d", "4", "_", "s", "c", "o", "r", "e">>,
   <<"p", "s", "d", "5", "_", "s", "c", "o", "r", "e">>,
   <<"p", "s", "d", "6", "_", "s", "c", "o", "r", "e">>,
   <<"p", "s", "d", "8", "_", "s", "c", "o", "r", "e">>,
   <<"p", "s", "d", "9", "_", "s", "c", "o", "r", "e">>,
   <<"p", "s", "d", "1", "2", "_", "s", "c", "o", "r", "e">>,
   <<"p", "s", "d", "1", "3", "_", "s", "c", "o", "r", "e">>,
   <<"p", "s", "d", "i", "r", "4", "_", "s", "c", "o", "r", "e">>,
   <<"p", "s", "d", "i", "r", "5", "_", "s", "c", "o", "r", "e">>,
   <<"p", "s", "d", "i", "r", "7", "_", "s", "c", "o", "r", "e">>,
   <<"p", "s", "d", "i", "r", "8", "_", "s", "c", "o", "r", "e">>,
   <<"p", "s", "d", "i", "r", "9", "_", "s", "c", "o", "r", "e">>,
   <<"p", "s", "d", "i", "r", "1", "0", "_", "s", "c", "o", "r", "e">>,
   <<"p", "s", "d", "i", "r", "1", "1", "_", "s", "c", "o", "r", "e">>}

\* GET /health/compliance
compliance_health_check ==
  /\ request' = AgentRequest("compliance_health_check", <<>>)
  /\ response' =
       Response(HTTP_200_OK, "",
                <<[status |-> "healthy",
                   psd_compliance |-> "enabled",
                   psd_sections |-> psd_sections,
                   psdir_sections |-> psdir_sections,
                   eta_2019_compliant |-> TRUE,
                   timestamp |-> utcnow]>>)
  /\ UNCHANGED <<users, audit_trail, companies, applications, now, today,
                 locked_at>>

\* a call of get_psd_requirements_for_document_type
get_psd_requirements(document_type) ==
  /\ request' = AgentRequest("get_psd_requirements_for_document_type",
                             <<document_type>>)
  /\ response' =
       Response(0, "returned",
                <<get_psd_requirements_for_document_type(document_type)>>)
  /\ UNCHANGED <<users, audit_trail, companies, applications, now, today,
                 locked_at>>

Init ==
  /\ users = [u \in UserIds |->
                NewUser(IF u = "u1" THEN "a@x" ELSE "b@x", "secret")]
  /\ audit_trail = <<>>
  /\ companies = <<>>
  /\ applications = <<>>
  /\ now = 0
  /\ today = 0
  /\ request = Request("none", None, NoId, None, None)
  /\ response = Response(0, "", <<>>)
  /\ locked_at = [u \in UserIds |-> NoTime]

AppIds == 1..(MaxApps + 1)

CreateStep ==
  \E u \in UserIds, r \in RegNumbers, n \in LegalNames, t \in CreateTexts :
     create_application(u, r, n, t)

GetStep == \E u \in UserIds, a \in AppIds : get_application(u, a)

ListStep ==
  \E u \in UserIds, p \in 1..MaxPage, s \in 1..MaxSize :
     list_applications(u, p, s)

UpdateStep ==
  \E u \in UserIds, a \in AppIds, t \in UpdateTexts :
     update_application(u, a, t)

SubmitStep == \E u \in UserIds, a \in AppIds : submit_application(u, a)

ComplianceStep ==
  \E u \in UserIds, a \in AppIds : get_application_compliance(u, a)

\* the six handlers of the applications router, within one day
Next ==
  \/ CreateStep
  \/ GetStep
  \/ ListStep
  \/ UpdateStep
  \/ SubmitStep
  \/ ComplianceStep

Spec == Init /\ [][Next]_vars

\* creating applications over several days
CreateNext ==
  \/ CreateStep
  \/ NextDay

CreateSpec == Init /\ [][CreateNext]_vars

\* creating and submitting applications over several days
SubmitNext ==
  \/ CreateStep
  \/ SubmitStep
  \/ NextDay

SubmitSpec == Init /\ [][SubmitNext]_vars

\* creating and listing applications over several days
ListNext ==
  \/ CreateStep
  \/ ListStep
  \/ NextDay

ListSpec == Init /\ [][ListNext]_vars

\* the UserManager operations and the clock
AuthNext ==
  \/ \E e \in Emails, p \in Passwords, f \in AuditFaults :
        authenticate_user(e, p, f)
  \/ \E e \in Emails, p \in Passwords \cup {None}, h \in Hosts,
        f \in AuditFaults :
        authenticate_with_psd12_compliance(e, p, h, f)
  \/ \E u \in UserIds, f \in AuditFaults : on_after_register(u, f)
  \/ \E u \in UserIds, f \in AuditFaults : on_after_forgot_password(u, f)
  \/ \E u \in UserIds, f \in AuditFaults : on_after_request_verify(u, f)
  \/ Tick

AuthSpec == Init /\ [][AuthNext]_vars

\* validate_password applied to one password and one registered user
PasswordInit ==
  /\ users = [u \in UserIds |->
                NewUser(IF u = "u1" THEN "a@x" ELSE "b@x", "secret")]
  /\ audit_trail = <<>>
  /\ companies = <<>>
  /\ applications = <<>>
  /\ now = 0
  /\ today = 0
  /\ request \in {PasswordRequest(p, u) : p \in PasswordInputs, u \in UserIds}
  /\ response = Pending
  /\ locked_at = [u \in UserIds |-> NoTime]

PasswordNext == validate_password

PasswordSpec == PasswordInit /\ [][PasswordNext]_vars

\* the three agents, called with what their callers pass and any answer of
\* the language model
AgentNext ==
  \/ \E c \in DocumentContents, t \in DocumentTypes, llm \in LLMOutcomes :
        validate_document(c, t, get_psd_requirements_for_document_type(t), llm)
  \/ \E d \in ApplicationData, llm \in LLMOutcomes : triage_application(d, llm)
  \/ \E d \in ApplicationData, llm \in LLMOutcomes : analyze_compliance(d, llm)

AgentSpec == Init /\ [][AgentNext]_vars

\* runs of the document validation workflow
WorkflowNext ==
  \/ \E documents \in DocumentLists(MaxDocs) : ainvoke(documents)
  \/ extract_content
  \/ validate_compliance
  \/ aggregate_results

WorkflowSpec == Init /\ [][WorkflowNext]_vars

\* the catalog as the two services answer and use it
CatalogNext ==
  \/ \E t \in DocumentTypes : get_psd_requirements(t)
  \/ \E c \in DocumentContents, t \in DocumentTypes, llm \in LLMOutcomes :
        validate_document(c, t, get_psd_requirements_for_document_type(t), llm)
  \/ compliance_health_check
  \/ Tick
  \/ NextDay

CatalogSpec == Init /\ [][CatalogNext]_vars

----------------------------------------------------------------------------
(* Properties                                                               *)

ApplicationHandlers ==
  {"get_application", "update_application", "submit_application",
   "get_application_compliance"}

SecurityHooks ==
  {"on_after_register", "on_after_forgot_password", "on_after_request_verify"}

\* the application with this id exists and belongs to the user / to another
Exists(a) == a \in 1..Len(applications)
OwnedBy(a, u) == Exists(a) /\ applications[a].applicant_id = u
Foreign(a, u) == Exists(a) /\ applications[a].applicant_id # u

\* an ideal digest: injective in the record and the previous digest
H(record, previous_hash) == <<record, previous_hash>>

\* the record of an audit row: every column but the hashes
Record(row) == <<row.event_type, row.user_id, row.action>>

HashChained(table) ==
  \A i \in 1..Len(table) :
     /\ table[i].previous_hash =
          (IF i = 1 THEN NoHash ELSE table[i - 1].current_hash)
     /\ table[i].current_hash = H(Record(table[i]), table[i].previous_hash)

\* C1: every security event logged by a completed hook call is appended to
\* the audit trail as a row whose previous_hash is the hash of the row before
\* it and whose hash is H(record || previous_hash); the table is one chain.
C1_AuditRowsHashChained ==
  [][ /\ HashChained(audit_trail')
      /\ \A u \in UserIds :
            (/\ \/ on_after_register(u, "none")
                \/ on_after_forgot_password(u, "none")
                \/ on_after_request_verify(u, "none")
             /\ response'.detail = "returned")
              => /\ Len(audit_trail') = Len(audit_trail) + 1
                 /\ audit_trail'[Len(audit_trail')].current_hash # NoHash
    ]_vars

\* the result of _log_security_event when the write succeeds
WriteSucceeded ==
  [user_id \in UserIds \cup {None}, event_type \in LoginEvents |->
     [raised |-> FALSE, stored |-> TRUE, audit_trail |-> audit_trail]]

\* C2: whatever goes wrong while writing the audit entry, the logger does not
\* raise, and authenticate_user and the three hooks return the same result
\* and leave the same users table as they would had the write succeeded.
C2_LogAndContinue ==
  [][ /\ \A e \in Emails, p \in Passwords, f \in AuditFaults :
            authenticate_user(e, p, f)
              => LET ok == authenticate_user_with(e, p, WriteSucceeded)
                 IN /\ response' = CallResponse(ok)
                    /\ users' = ok.users
      /\ \A u \in UserIds, f \in AuditFaults :
            (\/ on_after_register(u, f)
             \/ on_after_forgot_password(u, f)
             \/ on_after_request_verify(u, f))
              => /\ response' = Response(0, "returned", <<>>)
                 /\ users' = users
    ]_vars

C2_Witness ==
  /\ request.op \in SecurityHooks \cup {"authenticate_user"}
  /\ request.fault # "none"
  /\ response.detail = "returned"
  /\ \E u \in UserIds : users[u].login_attempts > 0

\* C3: submitting one's own application whose status is not "draft" answers
\* HTTP 400 and leaves the status and submitted_at of the application as
\* they were.
C3_SubmitNonDraftRejected ==
  [][ \A u \in UserIds, a \in AppIds :
         (OwnedBy(a, u) /\ applications[a].status # "draft"
            /\ submit_application(u, a))
           => /\ response'.code = HTTP_400_BAD_REQUEST
              /\ applications'[a].status = applications[a].status
              /\ applications'[a].submitted_at = applications[a].submitted_at
    ]_vars

C3_Witness ==
  /\ request.op = "submit_application"
  /\ response.code = HTTP_400_BAD_REQUEST
  /\ OwnedBy(request.app, request.user)
  /\ applications[request.app].submitted_at # utcnow

\* C4: submitting one's own draft application succeeds, sets the status to
\* "submitted" and sets submitted_at; a submit succeeds only on a draft, and
\* an application that has left "draft" never returns to it, so of the
\* submits for one application at most one succeeds and all later ones are
\* rejected.
C4_SubmitOnce ==
  [][ /\ \A u \in UserIds, a \in AppIds :
            (OwnedBy(a, u) /\ submit_application(u, a))
              => /\ applications[a].status = "draft"
                    => /\ response'.code = HTTP_200_OK
                       /\ applications'[a].status = "submitted"
                       /\ applications'[a].submitted_at = utcnow
                       /\ applications'[a].submitted_at # NoTime
                 /\ response'.code = HTTP_200_OK
                    => applications[a].status = "draft"
                 /\ applications[a].status # "draft"
                    => response'.code = HTTP_400_BAD_REQUEST
      /\ \A a \in 1..Len(applications) :
            applications[a].status # "draft"
              => applications'[a].status # "draft"
    ]_vars

C4_Witness ==
  /\ request.op = "submit_application"
  /\ response.code = HTTP_200_OK
  /\ applications[request.app].status = "submitted"
  /\ applications[request.app].submitted_at = utcnow

\* C5: a request of any of the four handlers for an application of another
\* user answers exactly the 404 given for an application that does not
\* exist, carries no data, and changes no table.
C5_OwnershipIsolation ==
  [][ \A u \in UserIds, a \in AppIds :
         (/\ Foreign(a, u)
          /\ \/ get_application(u, a)
             \/ \E t \in UpdateTexts : update_application(u, a, t)
             \/ submit_application(u, a)
             \/ get_application_compliance(u, a))
           => /\ response' = HTTPException(HTTP_404_NOT_FOUND, NotFoundDetail)
              /\ response'.body = <<>>
              /\ UNCHANGED <<applications, companies, users, audit_trail>>
    ]_vars

C5_Witness ==
  /\ request.op \in ApplicationHandlers
  /\ Foreign(request.app, request.user)
  /\ response.code = HTTP_404_NOT_FOUND

\* the ids on the pages 1..MaxPage of a user's listing, and their number
ListedIds(u, size) ==
  UNION { { ListPage(u, p, size)[i].id : i \in 1..Len(ListPage(u, p, size)) }
          : p \in 1..MaxPage }

RECURSIVE ListedCount(_, _, _)
ListedCount(u, size, p) ==
  IF p = 0 THEN 0
  ELSE Len(ListPage(u, p, size)) + ListedCount(u, size, p - 1)

OwnIds(u) == { a \in 1..Len(applications) : applications[a].applicant_id = u }

\* C6: for every user and page size, the pages of list_applications hold
\* each of the user's applications exactly once and no application of
\* another user; a page answered holds only rows of the caller.
C6_ListOwnOnly ==
  /\ \A u \in UserIds, size \in 1..MaxSize :
        /\ ListedIds(u, size) = OwnIds(u)
        /\ ListedCount(u, size, MaxPage) = Cardinality(OwnIds(u))
  /\ request.op = "list_applications"
       => \A i \in 1..Len(response.body) :
             response.body[i].applicant_id = request.user

C6_Witness ==
  /\ request.op = "list_applications"
  /\ Len(response.body) >= 1
  /\ \E a \in 1..Len(applications) : Foreign(a, request.user)
  /\ \E a \in 1..Len(applications) : OwnedBy(a, request.user)

Registered(e) == get_by_email(e) # NoUser

C10_LockedUntilExpiry ==
  [][ \A e \in Emails, p \in Passwords, f \in AuditFaults :
         (/\ Registered(e)
          /\ users[get_by_email(e)].account_locked
          /\ authenticate_user(e, p, f))
           => LET u == get_by_email(e)
              IN IF utcnow < locked_at[u] + ACCOUNT_LOCKOUT_DURATION
                   THEN response'.body = <<>>
                   ELSE IF p = users[u].password
                     THEN /\ response' = Response(0, "returned", <<u>>)
                          /\ users'[u].login_attempts = 0
                          /\ ~users'[u].account_locked
                     ELSE /\ response' = Response(0, "returned", <<>>)
                          /\ users'[u].login_attempts = 1
                          /\ ~users'[u].account_locked
    ]_vars

PasswordRules ==
  {TooShort, HasEmail, NoUpper, NoLower, NoNumber, NoSpecial, TooCommon}

\* two characters are the same letter, whatever their case
SameLetter(a, b) == lower(<<a>>) = lower(<<b>>)

\* the rule, named by its reason, fails for this password and e-mail address
Fails(rule, password, email) ==
  LET n == Len(password)
      address == EmailText(email)
  IN CASE rule = TooShort -> n < 12
       [] rule = HasEmail ->
            \E i \in 0..(n - Len(address)) :
               \A j \in 1..Len(address) : SameLetter(password[i + j], address[j])
       [] rule = NoUpper -> \A i \in 1..n : ~isupper(password[i])
       [] rule = NoLower -> \A i \in 1..n : ~islower(password[i])
       [] rule = NoNumber -> \A i \in 1..n : ~isdigit(password[i])
       [] rule = NoSpecial -> \A i \in 1..n : password[i] \notin special_characters
       [] rule = TooCommon ->
            \E c \in common_passwords :
               /\ Len(c) = n
               /\ \A i \in 1..n : SameLetter(password[i], c[i])

FailedRules(password, email) ==
  {rule \in PasswordRules : Fails(rule, password, email)}

\* C12: validate_password raises InvalidPasswordException if and only if at
\* least one of the seven rules fails for the password, and the reasons it
\* raises with are exactly the reasons of the failed rules, each once.
C12_RejectsWithEveryReason ==
  (request.op = "validate_password" /\ response # Pending)
    => LET failed == FailedRules(request.password, users[request.user].email)
       IN /\ response.detail = "InvalidPasswordException" <=> failed # {}
          /\ response.detail = "returned" <=> failed = {}
          /\ Len(response.body) = Cardinality(failed)
          /\ {response.body[i] : i \in 1..Len(response.body)} = failed

\* a password of full length rejected for two rules that are not the first
\* two, with both reasons
C12_Witness ==
  /\ request.op = "validate_password"
  /\ Len(request.password) >= 12
  /\ response = Response(0, "InvalidPasswordException", <<NoUpper, NoSpecial>>)

\* the language-model call failed, or its output is not valid JSON
LLMFailed(llm) == llm.raised # None \/ llm.content \in NotJson

\* the text of that failure
ErrorText(llm) ==
  IF llm.raised # None THEN llm.raised ELSE JSONDecodeError(llm.content)

\* C13: no call of validate_document, triage_application or analyze_compliance
\* raises; when the language-model call fails or answers text that is not
\* JSON, the call returns its fail-safe dict: compliance_status "error" and
\* confidence_score 0.0, risk_score 1.0 and priority "HIGH", or
\* overall_compliance_score 0.0, each with the text of the error.
C13_AgentsFailSafe ==
  [][ /\ \A llm \in LLMOutcomes :
            /\ \A c \in DocumentContents, t \in DocumentTypes :
                  validate_document(c, t,
                      get_psd_requirements_for_document_type(t), llm)
                    => /\ response'.detail = "returned"
                       /\ LLMFailed(llm)
                            => response'.body =
                                 <<[compliance_status |-> "error",
                                    confidence_score |-> 0,
                                    error |-> ErrorText(llm)]>>
            /\ \A d \in ApplicationData :
                  triage_application(d, llm)
                    => /\ response'.detail = "returned"
                       /\ LLMFailed(llm)
                            => response'.body =
                                 <<[risk_score |-> 10, priority |-> "HIGH",
                                    error |-> ErrorText(llm)]>>
            /\ \A d \in ApplicationData :
                  analyze_compliance(d, llm)
                    => /\ response'.detail = "returned"
                       /\ LLMFailed(llm)
                            => response'.body =
                                 <<[overall_compliance_score |-> 0,
                                    error |-> ErrorText(llm)]>>
      /\ request'.op \in {"validate_document", "triage_application",
                          "analyze_compliance"}
           => response'.detail = "returned"
    ]_vars

\* a triage that answered the fail-safe result after text that is not JSON
C13_Witness ==
  /\ request.op = "triage_application"
  /\ response =
       Response(0, "returned",
                <<[risk_score |-> 10, priority |-> "HIGH",
                   error |-> "Expecting property name enclosed in double quotes: line 1 column 2 (char 1)"]>>)

FixedOrder == <<"extract_content", "validate_compliance", "aggregate_results">>

\* the run of the request has stopped: it has ended or a node has raised
Stopped == request.op = "ainvoke" /\ response.node \notin DOMAIN edges

\* no step runs twice or before the step that precedes it: the steps run so
\* far are the first steps of the fixed order, and the next is the one after
WorkflowOrder ==
  request.op = "ainvoke"
    => /\ Len(response.ran) <= Len(FixedOrder)
       /\ response.ran = SubSeq(FixedOrder, 1, Len(response.ran))
       /\ response.node \in DOMAIN edges
            => response.node = FixedOrder[Len(response.ran) + 1]

\* C14: a run of the workflow that has stopped has run extract_content,
\* validate_compliance and aggregate_results in this order, each exactly
\* once, has ended, and its state has status "validation_complete" and
\* carries overall_validation_score, validation_results and recommendations.
C14_WorkflowRunsToCompletion ==
  /\ WorkflowOrder
  /\ Stopped
       => /\ response.ran = FixedOrder
          /\ response.node = END
          /\ response.body[1].status = "validation_complete"
          /\ {"overall_validation_score", "validation_results",
              "recommendations"} \subseteq DOMAIN response.body[1]

Elements(list) == {list[i] : i \in 1..Len(list)}

NoDuplicates(list) ==
  \A i, j \in 1..Len(list) : list[i] = list[j] => i = j

NotHyphen(char) == char # "-"

\* the score column named after a section: "PSD-12" gives "psd12_score"
ScoreColumn(section) ==
  lower(SelectSeq(section, NotHyphen)) \o <<"_", "s", "c", "o", "r", "e">>

\* the per-section score columns of ComplianceScore
SectionColumns ==
  {column \in ComplianceScore :
     Len(column) > 3 /\ SubSeq(column, 1, 3) = <<"p", "s", "d">>}

\* C15: every section of a requirement set that
\* get_psd_requirements_for_document_type answers, for any document type, is
\* on the PSD list of the compliance health endpoint; that list is PSD-1, 3,
\* 4, 5, 6, 8, 9, 12, 13 and the PSDIR list is PSDIR-4, 5, 7, 8, 9, 10, 11,
\* and the sections of the two lists correspond one to one to the
\* per-section score columns of ComplianceScore; a document type that is not
\* in the catalog gets the empty requirement set.
C15_CatalogConsistent ==
  /\ request.op = "get_psd_requirements_for_document_type"
       => /\ DOMAIN response.body[1] \subseteq Elements(psd_sections)
          /\ request.args[1] \notin
               {"business_plan", "financial_statements",
                "security_assessment", "legal_opinion"}
               => DOMAIN response.body[1] = {}
  /\ request.op = "validate_document"
       => DOMAIN request.args[3] \subseteq Elements(psd_sections)
  /\ request.op = "compliance_health_check"
       => LET body == response.body[1]
              listed == Elements(body.psd_sections)
                          \cup Elements(body.psdir_sections)
          IN /\ Elements(body.psd_sections) =
                  {PSD(n) : n \in {<<"1">>, <<"3">>, <<"4">>, <<"5">>, <<"6">>,
                                   <<"8">>, <<"9">>, <<"1", "2">>,
                                   <<"1", "3">>}}
             /\ Elements(body.psdir_sections) =
                  {PSDIR(n) : n \in {<<"4">>, <<"5">>, <<"7">>, <<"8">>,
                                     <<"9">>, <<"1", "0">>, <<"1", "1">>}}
             /\ NoDuplicates(body.psd_sections \o body.psdir_sections)
             /\ {ScoreColumn(section) : section \in listed} = SectionColumns
             /\ Cardinality(listed) = Cardinality(SectionColumns)

\* the requirement set answered for financial statements names PSD-8
C15_Witness ==
  /\ request.op = "get_psd_requirements_for_document_type"
  /\ request.args = <<"financial_statements">>
  /\ DOMAIN response.body[1] = {PSD(<<"1">>), PSD(<<"8">>)}

====
